---- MODULE Spec2Model ----
(***************************************************************************)
(* State-machine model of the UFPI documents chatbot:                      *)
(*   src/src/readers/document_reader.py    DocumentReader                  *)
(*   src/src/storage/vector_store.py       VectorStore                     *)
(*   src/src/application/rag_application.py RAGApplication                 *)
(*   src/src/models/embedding_model.py     EmbeddingModel                  *)
(*                                                                         *)
(* Python's None is modelled by the empty set and a present value x by the *)
(* singleton {x} (an "optional").  A dict whose values are numbers is a    *)
(* function from its keys to integers.  Floats (lambda_mult,               *)
(* score_threshold) are kept in tenths: 5 stands for 0.5.                  *)
(***************************************************************************)
EXTENDS Integers, Sequences, FiniteSets, TLC

\* ------------------------------------------------------------------ bounds
\* Most PDF files the documents folder holds.
MaxFiles == 2
\* Most structural elements partition_pdf returns for one file.
MaxElems == 1

\* ---------------------------------------------------------------- optionals
None == {}
Some(x) == {x}
Opt(S) == {None} \cup {{x} : x \in S}
\* x.get(default): the value held, the default when there is none.
Get(o, default) == IF o = None THEN default ELSE CHOOSE x \in o : TRUE
TheValue(o) == CHOOSE x \in o : TRUE

\* =========================================================================
\* DocumentReader
\* =========================================================================
\* What partition_pdf does with one file: it raises, or it returns the file's
\* structural elements in reading order, each a Table or a text element.
ElementKinds == {"Table", "Text"}
ElementLists == UNION {[1..n -> ElementKinds] : n \in 0..MaxElems}
PdfFiles == [raises : {TRUE}, elementos : {<<>>}]
              \cup [raises : {FALSE}, elementos : ElementLists]
\* The folder: the files get_pdf_files finds, in glob's discovery order.  The
\* path of a file is its position.
Folders == UNION {[1..n -> PdfFiles] : n \in 0..MaxFiles}

\* conteudo_final: for each element "\n" + (text_as_html | text) + "\n", a
\* string modelled as the sequence of its pieces.
RECURSIVE conteudo_final(_)
conteudo_final(elementos) ==
  IF elementos = <<>> THEN <<>>
  ELSE LET el == elementos[Len(elementos)]
           piece == IF el = "Table" THEN "text_as_html" ELSE "text"
       IN conteudo_final(SubSeq(elementos, 1, Len(elementos) - 1))
            \o <<"\n", piece, "\n">>

\* process_pdf without its except clause: the raise of partition_pdf leaves
\* the function.
process_pdf_uncaught(file_path, file) ==
  IF file.raises
  THEN [raised |-> TRUE, doc |-> None]
  ELSE [raised |-> FALSE,
        doc |-> Some([page_content |-> conteudo_final(file.elementos),
                      source |-> file_path])]

\* process_pdf: the whole body is inside try/except Exception, so a raise of
\* partition_pdf is caught and answered with None; nothing propagates.
process_pdf(file_path, file) ==
  IF file.raises
  THEN [raised |-> FALSE, doc |-> None]
  ELSE [raised |-> FALSE,
        doc |-> Some([page_content |-> conteudo_final(file.elementos),
                      source |-> file_path])]

\* [doc for doc in processed_docs if doc is not None]
RECURSIVE valid_documents(_)
valid_documents(processed_docs) ==
  IF processed_docs = <<>> THEN <<>>
  ELSE LET doc == processed_docs[Len(processed_docs)].doc
           rest == valid_documents(SubSeq(processed_docs, 1, Len(processed_docs) - 1))
       IN IF doc = None THEN rest ELSE rest \o <<TheValue(doc)>>

\* process_all_documents: [] for an empty folder, else the documents of the
\* files process_pdf did not answer None for.  The list comprehension stops
\* at the first process_pdf that raises.
process_all_documents(pdf_files) ==
  IF pdf_files = <<>> THEN [raised |-> FALSE, docs |-> <<>>]
  ELSE LET processed_docs == [i \in 1..Len(pdf_files) |-> process_pdf(i, pdf_files[i])]
       IN IF \E i \in 1..Len(pdf_files) : processed_docs[i].raised
          THEN [raised |-> TRUE, docs |-> <<>>]
          ELSE [raised |-> FALSE, docs |-> valid_documents(processed_docs)]

\* =========================================================================
\* VectorStore
\* =========================================================================
\* A dict with key `key` set to `v`.
Put(d, key, v) == [x \in DOMAIN d \cup {key} |-> IF x = key THEN v ELSE d[x]]

\* Defaults of get_retriever's signature.
get_retriever_search_type == "similarity"
get_retriever_k == 5
get_retriever_lambda_mult == 5

\* The search types langchain's retriever accepts.
allowed_search_types == {"similarity", "similarity_score_threshold", "mmr"}

\* as_retriever with no validation of the search type.
as_retriever_unvalidated(search_type, search_kwargs) ==
  [err |-> "none",
   retriever |-> Some([search_type |-> search_type,
                       search_kwargs |-> search_kwargs])]

\* self.vector_store.as_retriever(search_type=..., search_kwargs=...): the
\* call that ends get_retriever.  The retriever's constructor validates the
\* search type (VectorStoreRetriever.validate_search_type of langchain_core):
\* a type outside allowed_search_types raises ValueError, and so does
\* similarity_score_threshold without a score_threshold in search_kwargs.
\* Otherwise the retriever holds the arguments as given.
as_retriever(search_type, search_kwargs) ==
  IF search_type \notin allowed_search_types
  THEN [err |-> "ValueError: search_type not allowed", retriever |-> None]
  ELSE IF /\ search_type = "similarity_score_threshold"
          /\ "score_threshold" \notin DOMAIN search_kwargs
  THEN [err |-> "ValueError: score_threshold not specified", retriever |-> None]
  ELSE [err |-> "none",
        retriever |-> Some([search_type |-> search_type,
                            search_kwargs |-> search_kwargs])]

\* search_kwargs built with the mode tests left out: fetch_k, lambda_mult and
\* score_threshold are forwarded whenever they are given.
search_kwargs_any_mode(search_type, k, score_threshold, fetch_k, lambda_mult, filter) ==
  LET kw0 == [x \in {"k"} |-> k]
      kw1 == IF fetch_k # None
             THEN Put(Put(kw0, "fetch_k", TheValue(fetch_k)),
                      "lambda_mult", lambda_mult)
             ELSE kw0
      kw2 == IF score_threshold # None
             THEN Put(kw1, "score_threshold", TheValue(score_threshold))
             ELSE kw1
      kw3 == IF filter # None THEN Put(kw2, "filter", TheValue(filter)) ELSE kw2
  IN kw3

\* search_kwargs with lambda_mult set under mmr on its own, outside the test
\* on fetch_k.
search_kwargs_lambda_apart(search_type, k, score_threshold, fetch_k, lambda_mult, filter) ==
  LET kw0 == [x \in {"k"} |-> k]
      kwf == IF search_type = "mmr" /\ fetch_k # None
             THEN Put(kw0, "fetch_k", TheValue(fetch_k))
             ELSE kw0
      kw1 == IF search_type = "mmr" THEN Put(kwf, "lambda_mult", lambda_mult) ELSE kwf
      kw2 == IF search_type = "similarity_score_threshold" /\ score_threshold # None
             THEN Put(kw1, "score_threshold", TheValue(score_threshold))
             ELSE kw1
      kw3 == IF filter # None THEN Put(kw2, "filter", TheValue(filter)) ELSE kw2
  IN kw3

\* search_kwargs as get_retriever builds it.
search_kwargs_of(search_type, k, score_threshold, fetch_k, lambda_mult, filter) ==
  LET kw0 == [x \in {"k"} |-> k]
      kw1 == IF search_type = "mmr" /\ fetch_k # None
             THEN Put(Put(kw0, "fetch_k", TheValue(fetch_k)),
                      "lambda_mult", lambda_mult)
             ELSE kw0
      kw2 == IF search_type = "similarity_score_threshold" /\ score_threshold # None
             THEN Put(kw1, "score_threshold", TheValue(score_threshold))
             ELSE kw1
      kw3 == IF filter # None THEN Put(kw2, "filter", TheValue(filter)) ELSE kw2
  IN kw3

\* get_retriever without its guard on self.vector_store.
get_retriever_unguarded(vs, search_type, k, score_threshold, fetch_k, lambda_mult, filter) ==
  as_retriever(search_type,
               search_kwargs_of(search_type, k, score_threshold, fetch_k,
                                lambda_mult, filter))

\* VectorStore.get_retriever on a store whose vector_store field is `vs`.
get_retriever(vs, search_type, k, score_threshold, fetch_k, lambda_mult, filter) ==
  IF vs = None
  THEN [err |-> "ValueError: vector store not created", retriever |-> None]
  ELSE as_retriever(search_type,
                    search_kwargs_of(search_type, k, score_threshold, fetch_k,
                                     lambda_mult, filter))

\* create_vector_store dropping the old index before it builds the new one.
create_vector_store_clearing(vs, documents, ok) ==
  IF ok THEN [err |-> "none", vector_store |-> Some([n_documents |-> Len(documents)])]
  ELSE [err |-> "create_vector_store raised", vector_store |-> None]

\* VectorStore.create_vector_store: chunks the documents and builds the FAISS
\* index, assigning self.vector_store only when FAISS.from_documents returns.
\* `ok` is whether the chunking, the embedding backend and FAISS all return.
\* The index is told apart by how many documents it was built from.
create_vector_store(vs, documents, ok) ==
  IF ok THEN [err |-> "none", vector_store |-> Some([n_documents |-> Len(documents)])]
  ELSE [err |-> "create_vector_store raised", vector_store |-> vs]

\* =========================================================================
\* RAGApplication
\* =========================================================================
\* Values a retriever configuration may hold (lambda_mult and
\* score_threshold in tenths; "hybrid" stands for any unsupported type).
SearchTypes == allowed_search_types \cup {"hybrid"}
KValues == {-1, 0, 3, 25}
FetchKValues == {10, 30}
LambdaValues == {-2, 3, 12}
ScoreThresholds == {7}
Filters == {1}

\* A retriever_config dict: each key absent (None) or present.
RetrieverConfigs ==
  [search_type : Opt(SearchTypes), k : Opt(KValues),
   score_threshold : Opt(ScoreThresholds), fetch_k : Opt(FetchKValues),
   lambda_mult : Opt(LambdaValues), filter : Opt(Filters)]

EmptyConfig ==
  [search_type |-> None, k |-> None, score_threshold |-> None,
   fetch_k |-> None, lambda_mult |-> None, filter |-> None]

\* Defaults initialize reads the configuration with.
config_search_type == "similarity"
config_k == 5
config_lambda_mult == 5

\* RAGApplication.__init__: self.retriever_config = retriever_config or {"k": 5}
\* (None and the empty dict are both falsy).
init_retriever_config(arg) ==
  IF arg = None \/ arg = Some(EmptyConfig)
  THEN [EmptyConfig EXCEPT !.k = Some(config_k)]
  ELSE TheValue(arg)

\* The steps of initialize, in order.
StepProcess == "process_all_documents"
StepBuild == "create_vector_store"
StepRetriever == "get_retriever"
StepDocChain == "create_document_chain"
StepChain == "create_retrieval_chain"

\* The external calls of initialize that may raise on their own account.
FailPoints == {"none", StepBuild, StepDocChain, StepChain}

\* How initialize ends: the fields after the call, the exception ("none":
\* it returned), the steps it reached, and what steps 1 and 3 produced.
ended(vs, chain, e, tr, docs, r) ==
  [vector_store |-> vs, retrieval_chain |-> chain, err |-> e, trace |-> tr,
   documents |-> docs, retriever |-> r]

\* Steps 2 to 5 of RAGApplication.initialize, on the documents of step 1.
\* vs is the store's vector_store, chain the application's retrieval_chain;
\* fail_at names the external call that raises, if any.
initialize_from_documents(vs, chain, config, docs, fail_at) ==
  LET b == create_vector_store(vs, docs, fail_at # StepBuild)
      g == get_retriever(b.vector_store,
                         Get(config.search_type, config_search_type),
                         Get(config.k, config_k),
                         config.score_threshold,
                         config.fetch_k,
                         Get(config.lambda_mult, config_lambda_mult),
                         config.filter)
  IN IF b.err # "none"
     THEN ended(b.vector_store, chain, b.err, <<StepProcess, StepBuild>>, docs, None)
     ELSE IF g.err # "none"
     THEN ended(b.vector_store, chain, g.err,
                <<StepProcess, StepBuild, StepRetriever>>, docs, None)
     ELSE IF fail_at = StepDocChain
     THEN ended(b.vector_store, chain, "create_document_chain raised",
                <<StepProcess, StepBuild, StepRetriever, StepDocChain>>,
                docs, g.retriever)
     ELSE IF fail_at = StepChain
     THEN ended(b.vector_store, chain, "create_retrieval_chain raised",
                <<StepProcess, StepBuild, StepRetriever, StepDocChain, StepChain>>,
                docs, g.retriever)
     ELSE ended(b.vector_store,
                Some([retriever |-> TheValue(g.retriever),
                      index |-> TheValue(b.vector_store)]),
                "none",
                <<StepProcess, StepBuild, StepRetriever, StepDocChain, StepChain>>,
                docs, g.retriever)

\* initialize without its guard on an empty document list.
initialize_unguarded(vs, chain, config, pdf_files, fail_at) ==
  LET p == process_all_documents(pdf_files)
  IN IF p.raised
     THEN ended(vs, chain, "process_all_documents raised", <<StepProcess>>,
                p.docs, None)
     ELSE initialize_from_documents(vs, chain, config, p.docs, fail_at)

\* RAGApplication.initialize with the folder holding pdf_files: step 1, the
\* ValueError when it produced no document, then steps 2 to 5.
initialize(vs, chain, config, pdf_files, fail_at) ==
  LET p == process_all_documents(pdf_files)
  IN IF p.raised
     THEN ended(vs, chain, "process_all_documents raised", <<StepProcess>>,
                p.docs, None)
     ELSE IF p.docs = <<>>
     THEN ended(vs, chain, "ValueError: no documents", <<StepProcess>>,
                p.docs, None)
     ELSE initialize_from_documents(vs, chain, config, p.docs, fail_at)

\* RAGApplication.process_query: raises while retrieval_chain is unset, else
\* invokes the chain (`ok`: the invocation returns) and answers.
process_query(chain, ok) ==
  IF chain = None
  THEN [err |-> "ValueError: not initialized", answer |-> None]
  ELSE IF ok THEN [err |-> "none", answer |-> Some("answer")]
  ELSE [err |-> "retrieval_chain.invoke raised", answer |-> None]

\* =========================================================================
\* EmbeddingModel
\* =========================================================================
Providers == {"google", "openai", "huggingface", "local", "cohere"}
\* api_key: None, the empty string (falsy as well) or a key.
ApiKeys == Opt({"", "key"})
ModelNames == Opt({"custom-model"})
Devices == {"cuda", "cpu"}

\* model_kwargs dicts: each key absent (None) or present.  encode_kwargs and
\* model_kwargs are nested dicts; cache_folder stands for any key the
\* adapter does not know.
EncodeKwargs == [device : Opt(Devices), batch_size : Opt({32})]
NestedModelKwargs == [device : Opt({"cpu"}), trust_remote_code : Opt({TRUE})]
ModelKwargs ==
  [device : Opt(Devices), encode_kwargs : Opt(EncodeKwargs),
   model_kwargs : Opt(NestedModelKwargs), cache_folder : Opt({"cache"})]
EmptyKwargs ==
  [device |-> None, encode_kwargs |-> None, model_kwargs |-> None,
   cache_folder |-> None]
EmptyNested == [device |-> None, trust_remote_code |-> None]

\* The optional modules that may hold the backends, in the order
\* initialize_model tries them.
OpenAIModule == "langchain_openai"
HFModules == <<"langchain_huggingface", "langchain_community.embeddings",
               "langchain.embeddings">>
OptionalModules == {OpenAIModule} \cup {HFModules[i] : i \in 1..Len(HFModules)}

\* EmbeddingModel.__init__: the default model name of the provider.
default_model_name(provider, model_name) ==
  IF provider = "google" /\ model_name = None THEN Some("models/embedding-001")
  ELSE IF provider = "openai" /\ model_name = None THEN Some("text-embedding-3-small")
  ELSE IF provider = "huggingface" /\ model_name = None
  THEN Some("intfloat/multilingual-e5-small")
  ELSE IF provider = "local" /\ model_name = None
  THEN Some("paraphrase-multilingual-MiniLM-L12-v2")
  ELSE model_name

\* `self.api_key is None` in place of `not self.api_key`.
falsy_key_none_only(api_key) == api_key = None

\* `not self.api_key`
falsy_key(api_key) == api_key = None \/ api_key = Some("")

\* The reshaping with model_kwargs["model_kwargs"] replaced by a new dict
\* that holds the device alone.
reshape_device_replacing(kw) ==
  LET top == kw.device # None
      nested1 == [EmptyNested EXCEPT !.device = kw.device]
      copy1 == IF top
               THEN [kw EXCEPT !.device = None, !.model_kwargs = Some(nested1)]
               ELSE kw
      enc == copy1.encode_kwargs # None /\ TheValue(copy1.encode_kwargs).device # None
      encv == TheValue(copy1.encode_kwargs)
      nested2 == [EmptyNested EXCEPT !.device = encv.device]
      popped == Some([encv EXCEPT !.device = None])
      copy2 == IF enc
               THEN [copy1 EXCEPT !.encode_kwargs = popped,
                                  !.model_kwargs = Some(nested2)]
               ELSE copy1
      self2 == IF enc THEN [kw EXCEPT !.encode_kwargs = popped] ELSE kw
  IN [passed |-> copy2, stored |-> self2]

\* The local branch's reshaping of the kwargs.  model_kwargs is a shallow
\* copy of self.model_kwargs: the nested dicts are shared, so a pop from or
\* an assignment into a nested dict that was there shows in
\* self.model_kwargs too.  Answers the kwargs handed to the backend
\* (`passed`) and self.model_kwargs afterwards (`stored`).
reshape_device(kw) ==
  LET \* if "device" in model_kwargs: pop it into model_kwargs["model_kwargs"]
      top == kw.device # None
      nested1 == [Get(kw.model_kwargs, EmptyNested) EXCEPT !.device = kw.device]
      copy1 == IF top
               THEN [kw EXCEPT !.device = None, !.model_kwargs = Some(nested1)]
               ELSE kw
      self1 == IF top /\ kw.model_kwargs # None
               THEN [kw EXCEPT !.model_kwargs = Some(nested1)]
               ELSE kw
      \* if encode_kwargs holds "device": pop it into model_kwargs["model_kwargs"]
      enc == copy1.encode_kwargs # None /\ TheValue(copy1.encode_kwargs).device # None
      encv == TheValue(copy1.encode_kwargs)
      nested2 == [Get(copy1.model_kwargs, EmptyNested) EXCEPT !.device = encv.device]
      popped == Some([encv EXCEPT !.device = None])
      copy2 == IF enc
               THEN [copy1 EXCEPT !.encode_kwargs = popped,
                                  !.model_kwargs = Some(nested2)]
               ELSE copy1
      self2 == IF enc
               THEN [self1 EXCEPT !.encode_kwargs = popped,
                                  !.model_kwargs =
                                     IF kw.model_kwargs # None THEN Some(nested2)
                                     ELSE self1.model_kwargs]
               ELSE self1
  IN [passed |-> copy2, stored |-> self2]

\* The first module of HFModules that is installed and holds
\* HuggingFaceEmbeddings, as the three attempts find it; 0 when none does.
RECURSIVE hf_found(_, _)
hf_found(installed, i) ==
  IF i > Len(HFModules) THEN 0
  ELSE IF HFModules[i] \in installed THEN i
  ELSE hf_found(installed, i + 1)

\* The modules the local branch imports before it stops looking.
hf_imports(installed) ==
  LET n == hf_found(installed, 1)
      last == IF n = 0 THEN Len(HFModules) ELSE n
  IN [i \in 1..last |-> "import " \o HFModules[i]]

\* EmbeddingModel.initialize_model.  `installed` are the optional modules
\* present, `backend_ok` whether the backend's constructor returns.  Answers
\* how the call ended, its steps in order, self.embeddings and
\* self.model_kwargs afterwards.
initialize_model(provider, api_key, model_name, embeddings, model_kwargs, installed, backend_ok) ==
  LET out(e, tr, emb, kw) ==
        [err |-> e, trace |-> tr, embeddings |-> emb, model_kwargs |-> kw]
      backend(cls, key, kw) ==
        Some([cls |-> cls, model |-> model_name, api_key |-> key, kwargs |-> kw])
      r == reshape_device(model_kwargs)
  IN IF provider = "google"
     THEN IF falsy_key(api_key)
          THEN out("ValueError: api key needed", <<"check api_key">>,
                   embeddings, model_kwargs)
          ELSE IF ~backend_ok
          THEN out("backend raised",
                   <<"check api_key", "construct GoogleGenerativeAIEmbeddings">>,
                   embeddings, model_kwargs)
          ELSE out("none",
                   <<"check api_key", "construct GoogleGenerativeAIEmbeddings">>,
                   backend("GoogleGenerativeAIEmbeddings", api_key, model_kwargs),
                   model_kwargs)
     ELSE IF provider = "openai"
     THEN IF falsy_key(api_key)
          THEN out("ValueError: api key needed", <<"check api_key">>,
                   embeddings, model_kwargs)
          ELSE IF OpenAIModule \notin installed
          THEN out("ImportError", <<"check api_key", "import " \o OpenAIModule>>,
                   embeddings, model_kwargs)
          ELSE IF ~backend_ok
          THEN out("backend raised",
                   <<"check api_key", "import " \o OpenAIModule,
                     "construct OpenAIEmbeddings">>,
                   embeddings, model_kwargs)
          ELSE out("none",
                   <<"check api_key", "import " \o OpenAIModule,
                     "construct OpenAIEmbeddings">>,
                   backend("OpenAIEmbeddings", api_key, model_kwargs),
                   model_kwargs)
     ELSE IF provider \in {"huggingface", "local"}
     THEN IF hf_found(installed, 1) = 0
          THEN out("ImportError", hf_imports(installed), embeddings, model_kwargs)
          ELSE IF ~backend_ok
          THEN out("backend raised",
                   hf_imports(installed) \o <<"construct HuggingFaceEmbeddings">>,
                   embeddings, r.stored)
          ELSE out("none",
                   hf_imports(installed) \o <<"construct HuggingFaceEmbeddings">>,
                   backend("HuggingFaceEmbeddings", None, r.passed),
                   r.stored)
     ELSE out("ValueError: unsupported provider", <<>>, embeddings, model_kwargs)

\* =========================================================================
\* The application as a state machine
\* =========================================================================
VARIABLES
  dados,             \* the PDF files of documents_folder, in discovery order
  retriever_config,  \* RAGApplication.retriever_config
  vector_store,      \* VectorStore.vector_store: None or the built index
  retrieval_chain,   \* RAGApplication.retrieval_chain: None or the chain
  op,                \* the last call made
  err,               \* how it ended: "none" or the exception raised
  trace,             \* the steps the last initialize reached
  documents,         \* what process_all_documents returned to it
  given,             \* the parameters the last get_retriever was given
  retriever,         \* the retriever the last get_retriever returned
  answer,            \* the answer the last process_query returned
  ever_built,        \* history: a create_vector_store has returned
  ever_initialized,  \* history: an initialize has returned
  emb_given,         \* the arguments EmbeddingModel is constructed with
  embedding_model,   \* the EmbeddingModel object: None until constructed
  emb_op,            \* the last EmbeddingModel call
  emb_err,           \* how it ended
  emb_trace          \* the steps its initialize_model took, in order

appVars == <<dados, retriever_config, vector_store, retrieval_chain, op, err,
             trace, documents, given, retriever, answer, ever_built,
             ever_initialized>>
embVars == <<emb_given, embedding_model, emb_op, emb_err, emb_trace>>
vars == <<appVars, embVars>>

\* Configurations the application is constructed with: none, an mmr one and
\* one whose search type is unsupported.
AppConfigArgs ==
  { None,
    Some([EmptyConfig EXCEPT !.search_type = Some("mmr"), !.k = Some(3),
                             !.fetch_k = Some(10)]),
    Some([EmptyConfig EXCEPT !.search_type = Some("hybrid")]) }

\* Parameters of the direct get_retriever calls.
DirectArgs ==
  { EmptyConfig,
    [EmptyConfig EXCEPT !.search_type = Some("hybrid"), !.k = Some(0)] }

Fresh ==
  /\ vector_store = None
  /\ retrieval_chain = None
  /\ op = "__init__"
  /\ err = "none"
  /\ trace = <<>>
  /\ documents = <<>>
  /\ given = EmptyConfig
  /\ retriever = None
  /\ answer = None
  /\ ever_built = FALSE
  /\ ever_initialized = FALSE

\* The arguments of EmbeddingModel(...).
EmbeddingArgs ==
  [provider : Providers, api_key : ApiKeys, model_name : ModelNames,
   model_kwargs : Opt(ModelKwargs)]

\* EmbeddingModel.__init__: the fields it sets, then initialize_model; the
\* object exists only if initialize_model did not raise.
construct_embedding(a, installed, backend_ok) ==
  LET name == default_model_name(a.provider, a.model_name)
      \* self.model_kwargs = model_kwargs or {}
      kw == Get(a.model_kwargs, EmptyKwargs)
      r == initialize_model(a.provider, a.api_key, name, None, kw,
                            installed, backend_ok)
  IN [err |-> r.err, trace |-> r.trace,
      object |-> IF r.err = "none"
                 THEN Some([provider |-> a.provider, api_key |-> a.api_key,
                            model_name |-> name, model_kwargs |-> r.model_kwargs,
                            embeddings |-> r.embeddings])
                 ELSE None]

\* The embedding model RAGApplication.__init__ builds by default: the local
\* provider, every optional module installed.
DefaultEmbeddingArgs ==
  [provider |-> "local", api_key |-> Some("key"), model_name |-> None,
   model_kwargs |-> None]

EmbeddingBuilt ==
  \E c \in {construct_embedding(DefaultEmbeddingArgs, OptionalModules, TRUE)} :
     /\ emb_given = DefaultEmbeddingArgs
     /\ embedding_model = c.object
     /\ emb_op = "__init__"
     /\ emb_err = c.err
     /\ emb_trace = c.trace

Init ==
  /\ dados \in Folders
  /\ retriever_config \in {init_retriever_config(a) : a \in AppConfigArgs}
  /\ Fresh
  /\ EmbeddingBuilt

\* app.initialize()
Initialize ==
  \E fail_at \in FailPoints :
    \E r \in {initialize(vector_store, retrieval_chain, retriever_config, dados, fail_at)} :
       /\ vector_store' = r.vector_store
       /\ retrieval_chain' = r.retrieval_chain
       /\ op' = "initialize"
       /\ err' = r.err
       /\ trace' = r.trace
       /\ documents' = r.documents
       /\ given' = retriever_config
       /\ retriever' = r.retriever
       /\ answer' = None
       /\ ever_built' = (ever_built \/ (Len(r.trace) >= 2
                                         /\ r.err # "create_vector_store raised"))
       /\ ever_initialized' = (ever_initialized \/ r.err = "none")
       /\ UNCHANGED <<dados, retriever_config>>
       /\ UNCHANGED embVars

\* app.process_query(query)
ProcessQuery ==
  \E ok \in BOOLEAN :
    \E r \in {process_query(retrieval_chain, ok)} :
       /\ op' = "process_query"
       /\ err' = r.err
       /\ answer' = r.answer
       /\ trace' = <<>>
       /\ documents' = <<>>
       /\ given' = EmptyConfig
       /\ retriever' = None
       /\ UNCHANGED <<dados, retriever_config, vector_store, retrieval_chain,
                    ever_built, ever_initialized>>
       /\ UNCHANGED embVars

\* get_retriever discarding the index when the resolution raises.
GetRetriever_discarding(a) ==
  \E r \in {get_retriever(vector_store,
                           Get(a.search_type, get_retriever_search_type),
                           Get(a.k, get_retriever_k),
                           a.score_threshold,
                           a.fetch_k,
                           Get(a.lambda_mult, get_retriever_lambda_mult),
                           a.filter)} :
     /\ op' = "get_retriever"
     /\ err' = r.err
     /\ retriever' = r.retriever
     /\ given' = a
     /\ trace' = <<>>
     /\ documents' = <<>>
     /\ answer' = None
     /\ vector_store' = IF r.err = "none" THEN vector_store ELSE None
     /\ UNCHANGED <<dados, retriever_config, retrieval_chain,
                    ever_built, ever_initialized>>
     /\ UNCHANGED embVars

\* app.vector_store.get_retriever(**a): the keys a leaves out take the
\* defaults of the signature.
GetRetriever(a) ==
  \E r \in {get_retriever(vector_store,
                           Get(a.search_type, get_retriever_search_type),
                           Get(a.k, get_retriever_k),
                           a.score_threshold,
                           a.fetch_k,
                           Get(a.lambda_mult, get_retriever_lambda_mult),
                           a.filter)} :
     /\ op' = "get_retriever"
     /\ err' = r.err
     /\ retriever' = r.retriever
     /\ given' = a
     /\ trace' = <<>>
     /\ documents' = <<>>
     /\ answer' = None
     /\ UNCHANGED <<dados, retriever_config, vector_store, retrieval_chain,
                    ever_built, ever_initialized>>
     /\ UNCHANGED embVars

\* The folder changes between calls: a PDF appears or the last one goes.
FolderChanged(files) ==
  /\ dados' = files
  /\ op' = "folder"
  /\ err' = "none"
  /\ trace' = <<>>
  /\ documents' = <<>>
  /\ given' = EmptyConfig
  /\ retriever' = None
  /\ answer' = None
  /\ UNCHANGED <<retriever_config, vector_store, retrieval_chain,
               ever_built, ever_initialized>>
  /\ UNCHANGED embVars

AddFile ==
  /\ Len(dados) < MaxFiles
  /\ \E f \in PdfFiles : FolderChanged(Append(dados, f))

RemoveFile ==
  /\ dados # <<>>
  /\ FolderChanged(SubSeq(dados, 1, Len(dados) - 1))

GetRetrieverDirect == \E a \in DirectArgs : GetRetriever(a)

Next ==
  \/ Initialize
  \/ ProcessQuery
  \/ GetRetrieverDirect
  \/ AddFile
  \/ RemoveFile

Spec == Init /\ [][Next]_vars

\* =========================================================================
\* The retrieval configuration resolver: every configuration
\* =========================================================================
\* One readable PDF in the folder, so that initialize reaches get_retriever.
ResolverFolders == {<<[raises |-> FALSE, elementos |-> <<"Text">>]>>}

InitResolver ==
  /\ dados \in ResolverFolders
  /\ retriever_config \in {init_retriever_config(a) : a \in Opt(RetrieverConfigs)}
  /\ Fresh
  /\ EmbeddingBuilt

\* app.vector_store.get_retriever(**app.retriever_config)
GetRetrieverConfigured == GetRetriever(retriever_config)

NextResolver ==
  \/ Initialize
  \/ ProcessQuery
  \/ GetRetrieverConfigured

SpecResolver == InitResolver /\ [][NextResolver]_vars

\* =========================================================================
\* The embedding model as a state machine
\* =========================================================================
InitEmbedding ==
  /\ dados = <<>>
  /\ retriever_config = init_retriever_config(None)
  /\ Fresh
  /\ emb_given \in EmbeddingArgs
  /\ embedding_model = None
  /\ emb_op = "new"
  /\ emb_err = "none"
  /\ emb_trace = <<>>

\* The sets of installed optional modules that differ in a module the
\* provider's branch looks for.
Environments(provider) ==
  IF provider = "openai" THEN SUBSET {OpenAIModule}
  ELSE IF provider \in {"huggingface", "local"}
  THEN SUBSET {HFModules[i] : i \in 1..Len(HFModules)}
  ELSE {{}}

\* EmbeddingModel(**emb_given)
ConstructEmbedding ==
  /\ emb_op = "new"
  /\ \E installed \in Environments(emb_given.provider), backend_ok \in BOOLEAN :
       \E c \in {construct_embedding(emb_given, installed, backend_ok)} :
          /\ embedding_model' = c.object
          /\ emb_op' = "__init__"
          /\ emb_err' = c.err
          /\ emb_trace' = c.trace
  /\ UNCHANGED <<emb_given, appVars>>

\* model.initialize_model() on the constructed object
InitializeModelAgain ==
  /\ embedding_model # None
  /\ \E installed \in Environments(emb_given.provider), backend_ok \in BOOLEAN :
       \E m \in embedding_model :
       \E r \in {initialize_model(m.provider, m.api_key, m.model_name, m.embeddings,
                                  m.model_kwargs, installed, backend_ok)} :
          /\ embedding_model' = Some([m EXCEPT !.embeddings = r.embeddings,
                                               !.model_kwargs = r.model_kwargs])
          /\ emb_op' = "initialize_model"
          /\ emb_err' = r.err
          /\ emb_trace' = r.trace
  /\ UNCHANGED <<emb_given, appVars>>

\* model.get_embeddings_model(): self.embeddings is set on every constructed
\* object, so initialize_model is not run again.
GetEmbeddingsModel ==
  /\ embedding_model # None
  /\ TheValue(embedding_model).embeddings # None
  /\ emb_op' = "get_embeddings_model"
  /\ emb_err' = "none"
  /\ emb_trace' = <<>>
  /\ UNCHANGED <<emb_given, embedding_model, appVars>>

NextEmbedding ==
  \/ ConstructEmbedding
  \/ InitializeModelAgain
  \/ GetEmbeddingsModel

SpecEmbedding == InitEmbedding /\ [][NextEmbedding]_vars

\* =========================================================================
\* Properties
\* =========================================================================
NotCreated == "ValueError: vector store not created"
NotInitialized == "ValueError: not initialized"
NoDocuments == "ValueError: no documents"

\* C1: search before build is fatal.  A get_retriever call made while no
\* create_vector_store has returned raises the not-created error and returns
\* no retriever; a process_query call made while no initialize has returned
\* raises the not-initialised error and returns no answer.
C1_SearchBeforeBuild ==
  /\ (op = "get_retriever" /\ ~ever_built)
       => (err = NotCreated /\ retriever = None)
  /\ (op = "process_query" /\ ~ever_initialized)
       => (err = NotInitialized /\ answer = None)

\* The index was built, initialize failed after that, and the query raised.
C1_Witness ==
  /\ op = "process_query"
  /\ ever_built
  /\ ~ever_initialized
  /\ err = NotInitialized

\* The files of the folder whose extraction succeeded.
Succeeded == {i \in 1..Len(dados) : ~dados[i].raises}

\* C2: whatever subset of the files fails, process_all_documents raises
\* nothing and returns exactly one Document per file that succeeded, in
\* discovery order; and with at least one success initialize is not stopped
\* by the failed files: it goes on to create_vector_store.
C2_PartialFailure ==
  op = "initialize" =>
    /\ err # "process_all_documents raised"
    /\ Len(documents) = Cardinality(Succeeded)
    /\ \A j \in 1..Len(documents) : documents[j].source \in Succeeded
    /\ \A j \in 1..Len(documents) : \A h \in 1..Len(documents) :
         j < h => documents[j].source < documents[h].source
    /\ Succeeded # {} =>
         /\ err # NoDocuments
         /\ Len(trace) >= 2
         /\ trace[2] = StepBuild

\* The first file failed, the second succeeded, and initialize returned.
C2_Witness ==
  /\ op = "initialize"
  /\ Len(dados) = 2
  /\ dados[1].raises
  /\ ~dados[2].raises
  /\ Len(documents) = 1
  /\ err = "none"

\* C3: an initialize whose process_all_documents yields no document raises
\* the no-documents error with create_vector_store never called, and leaves
\* vector_store and retrieval_chain as they were (unset stays unset); a
\* process_query that follows it on an unset chain raises the
\* not-initialised error.
C3_TotalFailure ==
  [][ /\ (op' = "initialize" /\ documents' = <<>>)
          => /\ err' = NoDocuments
             /\ trace' = <<StepProcess>>
             /\ vector_store' = vector_store
             /\ retrieval_chain' = retrieval_chain
      /\ (/\ op = "initialize"
          /\ err = NoDocuments
          /\ retrieval_chain = None
          /\ op' = "process_query")
          => (err' = NotInitialized /\ answer' = None) ]_vars

\* Every PDF of a non-empty folder failed, and initialize raised with the
\* store and the chain still unset.
C3_Witness ==
  /\ op = "initialize"
  /\ dados # <<>>
  /\ documents = <<>>
  /\ err = NoDocuments
  /\ vector_store = None
  /\ retrieval_chain = None

\* C4: a PDF that yields no structural element is dropped: no Document
\* that process_all_documents returns has empty content, and a folder of
\* such files only yields no Document.
C4_EmptyPdfDropped ==
  op = "initialize" =>
    /\ \A j \in 1..Len(documents) : documents[j].page_content # <<>>
    /\ (\A i \in 1..Len(dados) : ~dados[i].raises /\ dados[i].elementos = <<>>)
         => documents = <<>>

MissingKey == "ValueError: api key needed"

\* C5: constructing EmbeddingModel for google or openai without an api_key
\* raises the missing-key error before anything else is tried (no optional
\* module imported, no backend constructed), whatever the model name and
\* kwargs; for huggingface and local the missing-key error is never raised.
C5_CredentialFirst ==
  emb_op = "__init__" =>
    /\ (/\ emb_given.provider \in {"google", "openai"}
        /\ emb_given.api_key \in {None, Some("")})
         => /\ emb_err = MissingKey
            /\ emb_trace = <<"check api_key">>
            /\ embedding_model = None
    /\ emb_given.provider \in {"huggingface", "local"} => emb_err # MissingKey

\* openai was asked for without a key, with kwargs, and the constructor
\* raised.
C5_Witness ==
  /\ emb_op = "__init__"
  /\ emb_given.provider = "openai"
  /\ emb_given.api_key = None
  /\ emb_given.model_kwargs # None
  /\ emb_err = MissingKey

\* ------------------------------------------------------------- the resolver
\* The last call ran the resolver on a built store.
ResolverRan ==
  \/ op = "get_retriever" /\ vector_store # None
  \/ op = "initialize" /\ Len(trace) >= 3

\* The search type the resolver was asked for: both get_retriever's
\* signature and initialize's configuration read fall back to one default.
GivenType ==
  Get(given.search_type,
      IF op = "initialize" THEN config_search_type ELSE get_retriever_search_type)

\* The search parameters of the retriever the resolver returned.
Kwargs == TheValue(retriever).search_kwargs

\* The unsupported-mode and missing-threshold errors aside, the resolver
\* returns a retriever.
ModeAccepted ==
  /\ GivenType \in {"similarity", "mmr", "similarity_score_threshold"}
  /\ GivenType = "similarity_score_threshold" => given.score_threshold # None

\* C6: mode-foreign parameters are ignored without failing.  The search
\* parameters hold fetch_k only under mmr and score_threshold only under
\* similarity_score_threshold, and a fetch_k or score_threshold given under
\* another supported mode does not make the resolver raise.
C6_ForeignIgnored ==
  ResolverRan =>
    /\ retriever # None =>
         /\ "fetch_k" \in DOMAIN Kwargs => GivenType = "mmr"
         /\ "score_threshold" \in DOMAIN Kwargs
              => GivenType = "similarity_score_threshold"
    /\ (ModeAccepted /\ given.fetch_k # None /\ GivenType # "mmr")
         => retriever # None
    /\ (ModeAccepted /\ given.score_threshold # None
          /\ GivenType # "similarity_score_threshold")
         => retriever # None

\* Both foreign parameters were given under similarity and a retriever came
\* back without them.
C6_Witness ==
  /\ ResolverRan
  /\ GivenType = "similarity"
  /\ given.fetch_k # None
  /\ given.score_threshold # None
  /\ retriever # None
  /\ DOMAIN Kwargs \subseteq {"k", "filter"}

\* C7: under mmr with no fetch_k given, the resolver does not raise and
\* supplies a default fetch_k >= k in the search parameters.
C7_DefaultFetchK ==
  (ResolverRan /\ GivenType = "mmr" /\ given.fetch_k = None) =>
    /\ retriever # None
    /\ "fetch_k" \in DOMAIN Kwargs
    /\ Kwargs["fetch_k"] >= Kwargs["k"]

\* C8: lambda defaults to 0.5, and a configured lambda outside [0, 1] makes
\* the resolver raise instead of returning a retriever (stated for mmr, the
\* mode lambda belongs to; 0..10 is [0, 1] in tenths).
C8_LambdaRejected ==
  (ResolverRan /\ GivenType = "mmr") =>
    /\ (retriever # None /\ "lambda_mult" \in DOMAIN Kwargs
          /\ given.lambda_mult = None)
         => Kwargs["lambda_mult"] = 5
    /\ (given.lambda_mult # None /\ TheValue(given.lambda_mult) \notin 0..10)
         => retriever = None

\* C9: the search type defaults to similarity, and a search type outside
\* the three supported ones makes the resolver raise the not-allowed error
\* and return no retriever.
C9_UnsupportedMode ==
  ResolverRan =>
    /\ given.search_type = None =>
         /\ retriever # None
         /\ TheValue(retriever).search_type = "similarity"
    /\ GivenType \notin {"similarity", "mmr", "similarity_score_threshold"}
         => /\ retriever = None
            /\ err = "ValueError: search_type not allowed"
    /\ retriever # None =>
         TheValue(retriever).search_type
            \in {"similarity", "mmr", "similarity_score_threshold"}

\* initialize built the index and then stopped at the unsupported type.
C9_Witness ==
  /\ op = "initialize"
  /\ trace = <<StepProcess, StepBuild, StepRetriever>>
  /\ given.search_type = Some("hybrid")
  /\ err = "ValueError: search_type not allowed"
  /\ retriever = None
  /\ retrieval_chain = None

\* C10: k defaults to 5, and a k <= 0 is rejected: the resolver never
\* returns search parameters whose k is <= 0.
C10_PositiveK ==
  (ResolverRan /\ retriever # None) =>
    /\ given.k = None => Kwargs["k"] = 5
    /\ Kwargs["k"] > 0

\* The index create_vector_store builds from the documents of the last
\* initialize.
BuiltIndex == Some([n_documents |-> Len(documents)])

\* C11: the index is mutated only by build.  A get_retriever call, whether
\* it returns or raises, and a process_query call leave
\* VectorStore.vector_store as it was; the field changes only in an
\* initialize whose create_vector_store returned, and the get_retriever that
\* initialize runs afterwards leaves the index that build produced; after a
\* get_retriever that raised on its parameters, a retry with supported
\* parameters returns a retriever on the same index.
C11_OnlyBuildMutates ==
  [][ /\ op' \in {"get_retriever", "process_query"} => vector_store' = vector_store
      /\ vector_store' # vector_store =>
            /\ op' = "initialize"
            /\ Len(trace') >= 2
            /\ err' # "create_vector_store raised"
      /\ (op' = "initialize" /\ Len(trace') >= 3) => vector_store' = BuiltIndex'
      /\ ( /\ op = "get_retriever"
           /\ err = "ValueError: search_type not allowed"
           /\ op' = "get_retriever"
           /\ given'.search_type = None )
          => /\ err' = "none"
             /\ retriever' # None
             /\ vector_store' = vector_store
             /\ vector_store' # None ]_vars

\* A direct get_retriever raised on its search type and left the built
\* index in place.
C11_Witness ==
  /\ op = "get_retriever"
  /\ given.search_type = Some("hybrid")
  /\ err = "ValueError: search_type not allowed"
  /\ retriever = None
  /\ vector_store # None
  /\ ever_built

\* ------------------------------------------------------ the embedding kwargs
\* The kwargs the object was constructed with: `model_kwargs or {}`.
GivenKwargs == Get(emb_given.model_kwargs, EmptyKwargs)

\* The keyword arguments the backend constructor of self.embeddings got.
PassedKwargs == TheValue(TheValue(embedding_model).embeddings).kwargs

\* The constructor returned an object.
Constructed == emb_op = "__init__" /\ emb_err = "none" /\ embedding_model # None

\* The device given inside encode_kwargs, if any.
EncodeDevice == Get(GivenKwargs.encode_kwargs, [device |-> None, batch_size |-> None]).device

\* The nested model_kwargs that were given, empty if none were.
GivenNested == Get(GivenKwargs.model_kwargs, EmptyNested)

\* C12: for huggingface and local, the backend gets no device at the top
\* level or inside encode_kwargs, and gets a given one inside the nested
\* model_kwargs (the one of encode_kwargs if both were given); every other
\* key (the unknown cache_folder, encode_kwargs' batch_size, the nested
\* trust_remote_code) reaches the backend as given, and a nested
\* model_kwargs appears only if one was given or a device was moved.  For
\* google and openai the backend gets the kwargs as given.
C12_DeviceMoved ==
  Constructed =>
    /\ emb_given.provider \in {"google", "openai"} => PassedKwargs = GivenKwargs
    /\ emb_given.provider \in {"huggingface", "local"} =>
         /\ PassedKwargs.device = None
         /\ PassedKwargs.cache_folder = GivenKwargs.cache_folder
         /\ IF GivenKwargs.encode_kwargs = None
            THEN PassedKwargs.encode_kwargs = None
            ELSE PassedKwargs.encode_kwargs =
                   Some([device |-> None,
                         batch_size |-> TheValue(GivenKwargs.encode_kwargs).batch_size])
         /\ IF /\ GivenKwargs.device = None
               /\ EncodeDevice = None
               /\ GivenKwargs.model_kwargs = None
            THEN PassedKwargs.model_kwargs = None
            ELSE PassedKwargs.model_kwargs =
                   Some([device |-> IF EncodeDevice # None THEN EncodeDevice
                                    ELSE IF GivenKwargs.device # None
                                    THEN GivenKwargs.device
                                    ELSE GivenNested.device,
                         trust_remote_code |-> GivenNested.trust_remote_code])

\* A local model was given a top-level device next to an unknown key and a
\* nested entry, and the backend got all three.
C12_Witness ==
  /\ Constructed
  /\ emb_given.provider = "local"
  /\ GivenKwargs.device = Some("cuda")
  /\ GivenKwargs.cache_folder = Some("cache")
  /\ GivenNested.trust_remote_code = Some(TRUE)
  /\ PassedKwargs.model_kwargs =
       Some([device |-> Some("cuda"), trust_remote_code |-> Some(TRUE)])
  /\ PassedKwargs.cache_folder = Some("cache")

\* ------------------------------------------------------- lambda_mult in mmr
\* C13: under mmr the search parameters of the returned retriever hold
\* lambda_mult exactly when fetch_k was given, next to that fetch_k and with
\* the given lambda_mult or the default 0.5; with fetch_k absent a given
\* lambda_mult is not forwarded.
C13_LambdaWithFetchK ==
  (ResolverRan /\ GivenType = "mmr" /\ retriever # None) =>
    /\ "lambda_mult" \in DOMAIN Kwargs <=> given.fetch_k # None
    /\ "lambda_mult" \in DOMAIN Kwargs <=> "fetch_k" \in DOMAIN Kwargs
    /\ given.fetch_k # None =>
         /\ Kwargs["fetch_k"] = TheValue(given.fetch_k)
         /\ Kwargs["lambda_mult"] =
              Get(given.lambda_mult,
                  IF op = "initialize" THEN config_lambda_mult
                  ELSE get_retriever_lambda_mult)

\* mmr was asked for with a lambda_mult and no fetch_k, and the retriever
\* came back without lambda_mult.
C13_Witness ==
  /\ ResolverRan
  /\ GivenType = "mmr"
  /\ given.fetch_k = None
  /\ given.lambda_mult = Some(3)
  /\ retriever # None
  /\ "lambda_mult" \notin DOMAIN Kwargs

\* ------------------------------------------------------ chain implies index
\* C14: in every reachable state retrieval_chain is set only if the vector
\* store has been built, and an initialize that raises, at whichever step,
\* leaves an unset retrieval_chain unset.
C14_ChainImpliesIndex ==
  [][ /\ retrieval_chain # None => vector_store # None
      /\ retrieval_chain' # None => vector_store' # None
      /\ (op' = "initialize" /\ err' # "none" /\ retrieval_chain = None)
           => retrieval_chain' = None ]_vars

\* A first initialize built the index and raised at the creation of the
\* retrieval chain.
C14_Witness ==
  /\ op = "initialize"
  /\ err = "create_retrieval_chain raised"
  /\ trace[Len(trace)] = StepChain
  /\ vector_store # None
  /\ retrieval_chain = None
  /\ ~ever_initialized

\* --------------------------------------------------- the stored configuration
\* C15: initialize_model does not modify the stored configuration.  After
\* it ran for huggingface or local, in the constructor or again on the
\* object, self.model_kwargs with its nested encode_kwargs and model_kwargs
\* equals what the caller passed in, and a run on the object hands the
\* backend the arguments the constructor's run handed it.
C15_ConfigurationKept ==
  ( /\ emb_op \in {"__init__", "initialize_model"}
    /\ embedding_model # None
    /\ emb_given.provider \in {"huggingface", "local"} )
  => /\ TheValue(embedding_model).model_kwargs = GivenKwargs
     /\ (emb_op = "initialize_model" /\ emb_err = "none")
          => PassedKwargs = reshape_device(GivenKwargs).passed

====
